---- MODULE Spec2Model ----
(***************************************************************************)
(* Student-roster pipeline: 02_data_cleaning.py (Cleaner),                 *)
(* 03_database_setup.py (SchemaManager), 04_data_insertion.py (Validator,  *)
(* BatchWriter, verification), 05_data_analysis.py (Aggregator).  The      *)
(* PostgreSQL store is modelled by its committed table, the open           *)
(* transaction of the script's connection and the constraints of the       *)
(* CREATE TABLE statement.                                                 *)
(*                                                                         *)
(* Optional values (pandas NaN / SQL NULL) are sequences: <<>> is missing, *)
(* <<v>> is the value v.  Text is a sequence of one-character strings.     *)
(* Marks are counted in hundredths (NUMERIC(4,2)): 10.00 is 1000.          *)
(***************************************************************************)
EXTENDS Integers, Sequences, FiniteSets, TLC

VARIABLES
    \* ---- 02_data_cleaning.py
    raw,        \* the DataFrame read from data/students.xlsx
    cdf,        \* the cleaner's working DataFrame
    cpc,        \* position of 02_data_cleaning.main
    file,       \* data/students_cleaned.csv: <<>> when absent, <<rows>> when written
    \* ---- the PostgreSQL store
    table,      \* the students relation: <<>> when absent, <<its columns' constraints>>
    rows,       \* its committed rows
    dbExists,   \* the student_analysis database exists on the server
    \* ---- the connections of the running script
    conn,       \* to student_analysis: "none", "open", "broken" (lost), "closed"
    txn,        \* its transaction: "idle", "active", "aborted"
    pending,    \* rows inserted by the open transaction, not yet committed
    ddlPending, \* the open transaction holds an uncommitted CREATE TABLE
    serverConn, \* to the 'postgres' database: "none", "open", "closed"
    \* ---- the running script (03_database_setup.py, 04_data_insertion.py or
    \*      05_data_analysis.py)
    script,     \* "idle", "setup", "insert", "analysis"
    pc,         \* its position
    exitCode,   \* <<>> until the exit status of the script is decided
    configExists,   \* config/database_config.json exists
    loc,        \* the local variables of main and of the function it is in
    \* ---- bookkeeping of the runs
    runNo,      \* insertion runs started
    faults,     \* store faults injected
    startRows,  \* committed rows when the running script started
    startTable, \* the relation when the running script started
    startFaults,\* faults injected before the running script started
    errAt,      \* the step of the running stage function that raised, "" when none
    \* ---- a second operator's run of 04_data_insertion.py
    peer        \* its position in insert_student_data and its locals

cleanVars == <<raw, cdf, cpc>>
storeVars == <<table, rows, dbExists>>
connVars == <<conn, txn, pending, ddlPending, serverConn>>
ctlVars == <<script, exitCode>>
histVars == <<runNo, startRows, startTable, startFaults>>
vars == <<cleanVars, file, storeVars, connVars, ctlVars, pc, configExists, loc,
          histVars, faults, errAt, peer>>

----------------------------------------------------------------------------
(* Optional values *)
NaN == <<>>
Some(v) == <<v>>
IsNull(x) == x = <<>>
NotNa(x) == x # <<>>
Val(x) == x[1]

(* Text *)
Space == " "
Tab == "\t"
Whitespace == {Space, Tab}

RECURSIVE SeqSum(_)
SeqSum(s) == IF s = <<>> THEN 0 ELSE Head(s) + SeqSum(Tail(s))

Range(s) == {s[i] : i \in DOMAIN s}

\* all sequences over S of length at most n
SeqsUpTo(S, n) == UNION {[1..k -> S] : k \in 0..n}

----------------------------------------------------------------------------
(* Bounds of the cleaner's inputs *)
MaxBatch == 2

\* full names offered by the record source: two tokens, one token, a run of
\* two spaces, three tokens, a leading space, a tab between the tokens
SampleNames ==
    { <<"a", Space, "b">>,
      <<"a">>,
      <<"a", Space, Space, "b">>,
      <<"a", Space, "b", Space, "c">>,
      <<Space, "a", Space, "b">>,
      <<"a", Tab, "b">> }

\* a mark cell of the sheet: empty, a number (hundredths), or text
NumMark(v) == [kind |-> "num", v |-> v]
NaNMark == [kind |-> "nan", v |-> 0]
TextMark == [kind |-> "text", v |-> 0]
SampleMarks == {NaNMark, NumMark(0), NumMark(750), TextMark}

\* the columns the cleaner only carries along hold one value each here
RawRecords ==
    [name : {Some(n) : n \in SampleNames} \cup {NaN}, mark : SampleMarks,
     age : {Some(20)}, gender : {Some("m")}, phone : {NaN}]

\* the DataFrame index labels the rows 1..n; the name columns come later
WithIndex(recs) ==
    [i \in DOMAIN recs |->
        [idx |-> i, name |-> recs[i].name, mark |-> recs[i].mark,
         age |-> recs[i].age, gender |-> recs[i].gender, phone |-> recs[i].phone,
         first |-> NaN, last |-> NaN]]

RawFrames == {WithIndex(s) : s \in SeqsUpTo(RawRecords, MaxBatch)}

----------------------------------------------------------------------------
(* 02_data_cleaning.py *)

\* a cleaner that tests the mark for truth drops a mark of 0 as well
MarkIsFalsy(m) == m.kind = "nan" \/ m = NumMark(0)

\* Series.isnull on the 'average mark' column: only an empty cell is null
MarkIsNull(m) == m.kind = "nan"

\* df.dropna(subset=['average mark']), row by row, order and index kept
RECURSIVE dropna(_)
dropna(dframe) ==
    IF dframe = <<>> THEN <<>>
    ELSE IF MarkIsNull(Head(dframe).mark)
         THEN dropna(Tail(dframe))
         ELSE <<Head(dframe)>> \o dropna(Tail(dframe))

remove_missing_average_marks(dframe) == dropna(dframe)

\* Python's s.split(' '): cut at every single space; n spaces give n+1 parts
RECURSIVE str_split(_, _)
str_split(s, cur) ==
    IF s = <<>> THEN <<cur>>
    ELSE IF Head(s) = Space
         THEN <<cur>> \o str_split(Tail(s), <<>>)
         ELSE str_split(Tail(s), Append(cur, Head(s)))

\* one row of df['student name'].str.split(' ', expand=True): NaN stays NaN
SplitParts(name) == IF IsNull(name) THEN <<>> ELSE str_split(Val(name), <<>>)

Max(S) == CHOOSE m \in S : \A x \in S : x <= m

\* expand=True: the result has as many columns as the longest list of parts
NameParts(dframe) ==
    [ncols |-> IF dframe = <<>> THEN 0 ELSE Max({Len(SplitParts(dframe[i].name)) : i \in DOMAIN dframe}),
     parts |-> [i \in DOMAIN dframe |-> SplitParts(dframe[i].name)]]

\* name_parts[k] for row i (k counted from 0): None beyond the row's parts
PartCell(name_parts, i, k) ==
    IF Len(name_parts.parts[i]) > k THEN Some(name_parts.parts[i][k + 1]) ELSE NaN

\* name_parts[0] / name_parts[1] raise KeyError when the column is absent
SplitRaises(dframe) == NameParts(dframe).ncols < 2

split_student_names(dframe) ==
    LET name_parts == NameParts(dframe) IN
    [i \in DOMAIN dframe |->
        [dframe[i] EXCEPT !.first = PartCell(name_parts, i, 0),
                      !.last = PartCell(name_parts, i, 1)]]

\* DataFrame.to_csv: a missing cell is written empty
CsvText(x) == IF IsNull(x) THEN <<>> ELSE Val(x)

to_csv(dframe) ==
    [i \in DOMAIN dframe |->
        [name |-> CsvText(dframe[i].name), first |-> CsvText(dframe[i].first),
         last |-> CsvText(dframe[i].last), age |-> dframe[i].age,
         mark |-> dframe[i].mark, gender |-> dframe[i].gender,
         phone |-> dframe[i].phone]]

(* The state of each part before it has run *)
CleanIdle == raw = <<>> /\ cdf = <<>> /\ cpc = "idle"
StoreInit == table = NaN /\ rows = <<>> /\ dbExists = FALSE
ConnInit ==
    /\ conn = "none" /\ txn = "idle" /\ pending = <<>> /\ ddlPending = FALSE
    /\ serverConn = "none"

\* a new process holds no connection
NoConnections ==
    /\ conn' = "none" /\ txn' = "idle" /\ pending' = <<>> /\ ddlPending' = FALSE
    /\ serverConn' = "none"

\* the locals of a script that has just started:
\*   db_config is "" before it is loaded, then "section" (config['database'])
\*   or "template" (the whole dict that create_database_config returns);
\*   the results of the stage functions are <<>> until the function returned;
\*   count_verified is the verdict verify_insertion_success prints on the count;
\*   results, df_results, age_results are None (<<>>) or hold the list / frame;
\*   summary tells that 05_data_analysis.main has printed its success summary
FreshLocals ==
    [db_config |-> "", df |-> <<>>, validation_passed |-> NaN,
     existing_count |-> 0, response |-> <<>>, nExec |-> 0,
     final_count |-> 0, insertion_successful |-> NaN,
     actual_count |-> 0, count_verified |-> NaN, all_checks_passed |-> TRUE,
     verification_passed |-> NaN, table_created |-> NaN,
     results |-> NaN, df_results |-> NaN, age_results |-> NaN, summary |-> FALSE]
LocInit == loc = FreshLocals
\* the second run before it is started: where it is in insert_student_data,
\* its existing_count, the rows of its open transaction, what it returned
PeerIdle == [pc |-> "idle", existing_count |-> 0, pending |-> <<>>, returned |-> NaN]
RunInit ==
    /\ runNo = 0 /\ faults = 0 /\ startRows = <<>> /\ startTable = NaN
    /\ startFaults = 0 /\ errAt = ""
    /\ peer = PeerIdle
ScriptInit ==
    script = "idle" /\ pc = "" /\ configExists = FALSE /\ exitCode = NaN

pipelineVars ==
    <<storeVars, connVars, ctlVars, pc, configExists, loc, histVars, faults, errAt,
      peer>>

CleanInit ==
    /\ raw \in RawFrames
    /\ cdf = raw
    /\ cpc = "remove_missing"
    /\ file = <<>>
    /\ StoreInit /\ ConnInit /\ LocInit /\ RunInit /\ ScriptInit

\* main, step 2
RemoveMissing ==
    /\ cpc = "remove_missing"
    /\ cdf' = remove_missing_average_marks(cdf)
    /\ cpc' = "split_names"
    /\ UNCHANGED <<raw, file, pipelineVars>>

\* main, step 3: an uncaught KeyError ends the script
SplitNames ==
    /\ cpc = "split_names"
    /\ IF SplitRaises(cdf)
       THEN cpc' = "crashed" /\ cdf' = cdf
       ELSE cpc' = "save" /\ cdf' = split_student_names(cdf)
    /\ UNCHANGED <<raw, file, pipelineVars>>

\* main, steps 4 and 5: validate_cleaned_data returns True, then to_csv
SaveCleaned ==
    /\ cpc = "save"
    /\ file' = Some(to_csv(cdf))
    /\ cpc' = "done"
    /\ UNCHANGED <<raw, cdf, pipelineVars>>

CleanNext == RemoveMissing \/ SplitNames \/ SaveCleaned

SpecClean == CleanInit /\ [][CleanNext]_vars

----------------------------------------------------------------------------
(* The students relation of 03_database_setup.py *)

StudentNameLen == 100
FirstNameLen == 50
LastNameLen == 50
MarkMaxStored == 1000

\* the column constraints of CREATE TABLE
StudentsDDL ==
    [student_name |-> [notnull |-> TRUE, maxlen |-> StudentNameLen],
     first_name   |-> [notnull |-> TRUE, maxlen |-> FirstNameLen],
     last_name    |-> [notnull |-> TRUE, maxlen |-> LastNameLen],
     age          |-> [notnull |-> TRUE, above |-> 0],
     average_mark |-> [notnull |-> TRUE, min |-> 0, max |-> MarkMaxStored],
     gender       |-> [notnull |-> TRUE, among |-> {"m", "f"}],
     phone_number |-> [notnull |-> FALSE]]

\* VARCHAR(n) NOT NULL: NULL is refused, a text longer than n is an error,
\* the empty text is accepted
TextOk(col, x) == NotNa(x) /\ Len(Val(x)) <= col.maxlen

\* the row (student_name, first_name, last_name, age, average_mark, gender,
\* phone_number) passes the table's NOT NULL and CHECK constraints
StoreAccepts(ddl, r) ==
    /\ TextOk(ddl.student_name, r.name)
    /\ TextOk(ddl.first_name, r.first)
    /\ TextOk(ddl.last_name, r.last)
    /\ NotNa(r.age) /\ Val(r.age) > ddl.age.above
    /\ NotNa(r.mark) /\ Val(r.mark) >= ddl.average_mark.min
                     /\ Val(r.mark) <= ddl.average_mark.max
    /\ NotNa(r.gender) /\ Val(r.gender) \in ddl.gender.among

----------------------------------------------------------------------------
(* 04_data_insertion.py: loading and validating the cleaned file *)

MinAge == 1
MaxAge == 150
MinMark == 0
MaxMark == 1000

\* pd.read_csv: an empty cell is read as NaN
CsvCell(text) == IF text = <<>> THEN NaN ELSE Some(text)

read_csv(csv) ==
    [i \in DOMAIN csv |->
        [name |-> CsvCell(csv[i].name), first |-> CsvCell(csv[i].first),
         last |-> CsvCell(csv[i].last), age |-> csv[i].age, mark |-> csv[i].mark,
         gender |-> csv[i].gender, phone |-> csv[i].phone]]

critical_columns == {"first", "last", "age", "mark", "gender"}

CellIsNull(r, column) ==
    IF column = "mark" THEN MarkIsNull(r.mark) ELSE IsNull(r[column])

\* df[column].isnull().sum()
missing_count(dframe, column) ==
    Cardinality({i \in DOMAIN dframe : CellIsNull(dframe[i], column)})

\* a validator whose lower age limit is off by one
AgeOutOfRangeLoose(a) == NotNa(a) /\ (Val(a) < 0 \/ Val(a) > MaxAge)

\* (df['age'] < 1) | (df['age'] > 150): a comparison with NaN is False
AgeOutOfRange(a) == NotNa(a) /\ (Val(a) < MinAge \/ Val(a) > MaxAge)

\* (df['average mark'] < 0) | (df['average mark'] > 10)
MarkOutOfRange(m) == m.kind = "num" /\ (m.v < MinMark \/ m.v > MaxMark)

\* df['gender'].isin(['m', 'f']): NaN is not in the list
GenderIsIn(g) == NotNa(g) /\ Val(g) \in {"m", "f"}

invalid_ages(dframe) ==
    Cardinality({i \in DOMAIN dframe : AgeOutOfRange(dframe[i].age)})
invalid_marks(dframe) ==
    Cardinality({i \in DOMAIN dframe : MarkOutOfRange(dframe[i].mark)})
invalid_gender_count(dframe) ==
    Cardinality({i \in DOMAIN dframe : ~GenderIsIn(dframe[i].gender)})

validate_data_before_insertion(dframe) ==
    /\ \A column \in critical_columns : missing_count(dframe, column) = 0
    /\ invalid_ages(dframe) = 0
    /\ invalid_marks(dframe) = 0
    /\ invalid_gender_count(dframe) = 0

----------------------------------------------------------------------------
(* Bounds of the pipeline runs *)
MaxRuns == 2        \* insertion runs the operator starts
MaxFaults == 1      \* store faults (statement errors, lost connections) injected

\* what a round trip to the store can do: succeed, raise a psycopg2.Error
\* leaving the connection usable, or lose the connection
Outcomes == IF faults < MaxFaults THEN {"ok", "error", "drop"} ELSE {"ok"}

Charge(o) == faults' = IF o = "ok" THEN faults ELSE faults + 1

\* the connection after a round trip that raised: a failed statement leaves
\* the transaction aborted until rollback; a lost connection ends the
\* transaction on the server, which discards its work
ConnFail(res) ==
    IF res = "drop"
    THEN conn' = "broken" /\ txn' = "idle" /\ pending' = <<>> /\ ddlPending' = FALSE
    ELSE conn' = conn /\ txn' = "aborted" /\ UNCHANGED <<pending, ddlPending>>

\* conn.rollback() on a usable connection
RolledBack ==
    conn' = conn /\ txn' = "idle" /\ pending' = <<>> /\ ddlPending' = FALSE

\* sys.exit(code), or main returning, with no connection open
ExitNow(code) == script' = "idle" /\ pc' = "" /\ exitCode' = Some(code)

Running(name, at) == script = name /\ pc = at

----------------------------------------------------------------------------
(* 04_data_insertion.py: main and insert_student_data *)

\* the operator starts the insertion script
StartInsert ==
    /\ script = "idle" /\ runNo < MaxRuns
    /\ script' = "insert" /\ pc' = "load_config"
    /\ runNo' = runNo + 1
    /\ startRows' = rows /\ startTable' = table /\ startFaults' = faults
    /\ errAt' = ""
    /\ exitCode' = NaN
    /\ loc' = FreshLocals /\ NoConnections
    /\ UNCHANGED <<cleanVars, peer, file, storeVars, faults, configExists>>

\* main, step 1: load_database_config
InsLoadConfig ==
    /\ Running("insert", "load_config")
    /\ IF configExists
       THEN /\ loc' = [loc EXCEPT !.db_config = "section"]
            /\ pc' = "load_data" /\ UNCHANGED ctlVars
       ELSE ExitNow(1) /\ loc' = loc
    /\ UNCHANGED <<cleanVars, peer, file, storeVars, connVars, configExists, histVars,
                   faults, errAt>>

\* main, step 2: load_cleaned_data
InsLoadData ==
    /\ Running("insert", "load_data")
    /\ IF file = <<>>
       THEN ExitNow(1) /\ loc' = loc
       ELSE /\ loc' = [loc EXCEPT !.df = read_csv(Val(file))]
            /\ pc' = "validate" /\ UNCHANGED ctlVars
    /\ UNCHANGED <<cleanVars, peer, file, storeVars, connVars, configExists, histVars,
                   faults, errAt>>

\* a main that only prints the validator's verdict and goes on
NeverHalts(passed) == FALSE

\* main, step 3: if not validate_data_before_insertion(df): sys.exit(1)
HaltsOnValidation(passed) == ~passed

InsValidate ==
    /\ Running("insert", "validate")
    /\ loc' = [loc EXCEPT
                 !.validation_passed = Some(validate_data_before_insertion(loc.df))]
    /\ IF HaltsOnValidation(validate_data_before_insertion(loc.df))
       THEN ExitNow(1)
       ELSE pc' = "connect" /\ UNCHANGED ctlVars
    /\ UNCHANGED <<cleanVars, peer, file, storeVars, connVars, configExists, histVars,
                   faults, errAt>>

\* main, step 4: create_database_connection; None makes main exit
InsConnect ==
    /\ Running("insert", "connect")
    /\ \E o \in Outcomes :
        /\ Charge(o)
        /\ IF o = "ok" /\ dbExists
           THEN conn' = "open" /\ pc' = "ins_count" /\ UNCHANGED ctlVars
           ELSE ExitNow(1) /\ conn' = conn
    /\ UNCHANGED <<cleanVars, peer, file, storeVars, txn, pending, ddlPending, serverConn,
                   configExists, loc, histVars, errAt>>

\* an exception inside insert_student_data's try block
Raise(step, res) == errAt' = step /\ pc' = "ins_except" /\ ConnFail(res)

\* where insert_student_data goes once the guard lets it insert
ExecPc == IF Len(loc.df) = 0 THEN "ins_commit" ELSE "ins_exec"

\* SELECT COUNT(*) as this connection sees it
CountRows == Len(rows) + Len(pending)

\* lines 147-150: the first statement opens the transaction
InsCount ==
    /\ Running("insert", "ins_count")
    /\ \E o \in Outcomes :
        LET res == IF o = "ok" /\ table = NaN THEN "error" ELSE o IN
        /\ Charge(o)
        /\ IF res = "ok"
           THEN /\ loc' = [loc EXCEPT !.existing_count = CountRows]
                /\ txn' = "active"
                /\ pc' = IF CountRows > 0 THEN "ins_prompt" ELSE ExecPc
                /\ UNCHANGED <<conn, pending, ddlPending, errAt>>
           ELSE Raise("count", res) /\ loc' = loc
    /\ UNCHANGED <<cleanVars, peer, file, storeVars, serverConn, ctlVars, configExists,
                   histVars>>

\* what the operator may type at the prompt
Answers == { <<"y">>, <<"Y", Space>>, <<"n">>, <<>>, <<"y", "e", "s">> }

LowerChar(c) == IF c = "Y" THEN "y" ELSE IF c = "N" THEN "n" ELSE c
lower(text) == [i \in DOMAIN text |-> LowerChar(text[i])]

RECURSIVE lstrip(_)
lstrip(text) ==
    IF text # <<>> /\ Head(text) \in Whitespace THEN lstrip(Tail(text)) ELSE text

RECURSIVE rstrip(_)
rstrip(text) ==
    IF text # <<>> /\ text[Len(text)] \in Whitespace
    THEN rstrip(SubSeq(text, 1, Len(text) - 1))
    ELSE text

strip(text) == rstrip(lstrip(text))

\* a guard that goes on unless the answer is 'n'
ProceedsUnlessNo(resp) == resp # <<"n">>

\* line 153: the insertion goes on only when response == 'y'
Proceeds(resp) == resp = <<"y">>

\* lines 150-155: the prompt of a non-empty table
InsPrompt ==
    /\ Running("insert", "ins_prompt")
    /\ \E answer \in Answers :
        LET resp == strip(lower(answer)) IN
        IF Proceeds(resp)
        THEN loc' = [loc EXCEPT !.response = resp] /\ pc' = ExecPc
        ELSE /\ loc' = [loc EXCEPT !.response = resp,
                                   !.insertion_successful = Some(FALSE)]
             /\ pc' = "main_check"
    /\ UNCHANGED <<cleanVars, peer, file, storeVars, connVars, ctlVars, configExists,
                   histVars, faults, errAt>>

\* lines 168-178: the tuple handed to the INSERT statement
record_data(row) ==
    [name |-> row.name, first |-> row.first, last |-> row.last,
     age |-> row.age,
     mark |-> IF row.mark.kind = "num" THEN Some(row.mark.v) ELSE NaN,
     gender |-> row.gender, phone |-> row.phone]

\* int(NaN) and float('text') raise ValueError while the tuples are built
PrepRaises(dframe) ==
    \E i \in DOMAIN dframe : IsNull(dframe[i].age) \/ dframe[i].mark.kind = "text"

\* a connection in autocommit mode makes every INSERT durable at once
CommittedAfterInsertAutocommit(committed, row) == Append(committed, row)

\* the committed rows after an INSERT inside the open transaction
CommittedAfterInsert(committed, row) == committed

\* lines 164-183: the tuples are built, then executemany runs the INSERTs
\* one after the other inside the transaction
InsExec ==
    /\ Running("insert", "ins_exec")
    /\ \E o \in Outcomes :
        LET k == loc.nExec + 1
            row == [run |-> runNo, pos |-> k, rec |-> record_data(loc.df[k])]
            res == IF PrepRaises(loc.df) THEN "pyerror"
                   ELSE IF o = "ok" /\ ~StoreAccepts(Val(table), row.rec)
                        THEN "error" ELSE o
        IN
        /\ faults' = IF res = "pyerror" THEN faults
                     ELSE IF o = "ok" THEN faults ELSE faults + 1
        /\ IF res = "ok"
           THEN /\ pending' = Append(pending, row)
                /\ rows' = CommittedAfterInsert(rows, row)
                /\ loc' = [loc EXCEPT !.nExec = k]
                /\ pc' = IF k = Len(loc.df) THEN "ins_commit" ELSE "ins_exec"
                /\ UNCHANGED <<conn, txn, ddlPending, errAt>>
           ELSE IF res = "pyerror"
           THEN /\ errAt' = "prepare" /\ pc' = "ins_except"
                /\ UNCHANGED <<conn, txn, pending, ddlPending, rows, loc>>
           ELSE /\ Raise("insert", res)
                /\ loc' = [loc EXCEPT !.nExec = k]
                /\ rows' = rows
    /\ UNCHANGED <<cleanVars, peer, file, table, dbExists, serverConn, ctlVars,
                   configExists, histVars>>

\* line 186: conn.commit(); a connection lost during COMMIT leaves it
\* undecided whether the server had committed
InsCommit ==
    /\ Running("insert", "ins_commit")
    /\ \E o \in Outcomes, applied \in BOOLEAN :
        /\ Charge(o)
        /\ (o # "drop") => applied = (o = "ok")
        /\ rows' = IF applied THEN rows \o pending ELSE rows
        /\ IF o = "ok"
           THEN /\ txn' = "idle" /\ pending' = <<>> /\ pc' = "ins_recount"
                /\ UNCHANGED <<conn, ddlPending, errAt>>
           ELSE /\ errAt' = "commit" /\ pc' = "ins_except"
                /\ conn' = IF o = "drop" THEN "broken" ELSE conn
                /\ txn' = "idle" /\ pending' = <<>> /\ ddlPending' = FALSE
    /\ UNCHANGED <<cleanVars, peer, file, table, dbExists, serverConn, ctlVars,
                   configExists, loc, histVars>>

\* lines 189-196: the count is read again and printed; return True
InsRecount ==
    /\ Running("insert", "ins_recount")
    /\ \E o \in Outcomes :
        /\ Charge(o)
        /\ IF o = "ok"
           THEN /\ loc' = [loc EXCEPT !.final_count = CountRows,
                                      !.insertion_successful = Some(TRUE)]
                /\ txn' = "active" /\ pc' = "main_check"
                /\ UNCHANGED <<conn, pending, ddlPending, errAt>>
           ELSE Raise("recount", o) /\ loc' = loc
    /\ UNCHANGED <<cleanVars, peer, file, storeVars, serverConn, ctlVars, configExists,
                   histVars>>

\* lines 198-205: both handlers roll back and return False; on a lost
\* connection conn.rollback() itself raises, the exception leaves main
\* through its finally clause and the interpreter exits with status 1
InsExcept ==
    /\ Running("insert", "ins_except")
    /\ IF conn = "open"
       THEN /\ RolledBack
            /\ loc' = [loc EXCEPT !.insertion_successful = Some(FALSE)]
            /\ pc' = "main_check" /\ UNCHANGED exitCode
       ELSE /\ pc' = "finally" /\ exitCode' = Some(1)
            /\ UNCHANGED <<conn, txn, pending, ddlPending, loc>>
    /\ UNCHANGED <<cleanVars, peer, file, storeVars, serverConn, script, configExists,
                   histVars, faults, errAt>>

\* lines 310-313: sys.exit(1) inside the try block runs the finally clause
InsMainCheck ==
    /\ Running("insert", "main_check")
    /\ IF loc.insertion_successful = Some(TRUE)
       THEN pc' = "ver_count" /\ UNCHANGED exitCode
       ELSE pc' = "finally" /\ exitCode' = Some(1)
    /\ UNCHANGED <<cleanVars, peer, file, storeVars, connVars, script, configExists, loc,
                   histVars, faults, errAt>>

----------------------------------------------------------------------------
(* 04_data_insertion.py: verify_insertion_success *)

\* line 223: the count passes when it is at least expected_count
CountPasses(actual, expected) == actual >= expected

\* an exception inside verify_insertion_success: return False, no rollback
VerFail(res) ==
    /\ ConnFail(res) /\ errAt' = "verify"
    /\ loc' = [loc EXCEPT !.verification_passed = Some(FALSE)]
    /\ pc' = "ver_done"

\* lines 215-227; main passes len(df) as expected_count
VerCount ==
    /\ Running("insert", "ver_count")
    /\ \E o \in Outcomes :
        /\ Charge(o)
        /\ IF o = "ok"
           THEN /\ txn' = "active" /\ UNCHANGED <<conn, pending, ddlPending, errAt>>
                /\ IF CountPasses(CountRows, Len(loc.df))
                   THEN /\ loc' = [loc EXCEPT !.actual_count = CountRows,
                                              !.count_verified = Some(TRUE)]
                        /\ pc' = "ver_nulls"
                   ELSE /\ loc' = [loc EXCEPT !.actual_count = CountRows,
                                              !.count_verified = Some(FALSE),
                                              !.verification_passed = Some(FALSE)]
                        /\ pc' = "ver_done"
           ELSE VerFail(o)
    /\ UNCHANGED <<cleanVars, peer, file, storeVars, serverConn, ctlVars, configExists,
                   histVars>>

\* SUM(CASE WHEN column IS NULL THEN 1 ELSE 0 END): NULL over an empty table
null_count(column) ==
    IF rows \o pending = <<>> THEN NaN
    ELSE Some(Cardinality({i \in DOMAIN (rows \o pending) :
                              IsNull((rows \o pending)[i].rec[column])}))

null_fields == {"first", "last", "age", "mark", "gender"}

\* lines 229-249: a field passes when its count equals 0
VerNulls ==
    /\ Running("insert", "ver_nulls")
    /\ \E o \in Outcomes :
        /\ Charge(o)
        /\ IF o = "ok"
           THEN /\ loc' = [loc EXCEPT !.all_checks_passed =
                              \A field \in null_fields : null_count(field) = Some(0)]
                /\ pc' = "ver_sample"
                /\ UNCHANGED <<connVars, errAt>>
           ELSE VerFail(o) /\ UNCHANGED serverConn
    /\ UNCHANGED <<cleanVars, peer, file, storeVars, ctlVars, configExists, histVars>>

\* lines 251-253: SELECT * ... LIMIT 5
VerSample ==
    /\ Running("insert", "ver_sample")
    /\ \E o \in Outcomes :
        /\ Charge(o)
        /\ IF o = "ok"
           THEN pc' = "ver_columns" /\ UNCHANGED <<connVars, loc, errAt>>
           ELSE VerFail(o) /\ UNCHANGED serverConn
    /\ UNCHANGED <<cleanVars, peer, file, storeVars, ctlVars, configExists, histVars>>

\* lines 255-268: the column names are read, the sample printed;
\* return all_checks_passed
VerColumns ==
    /\ Running("insert", "ver_columns")
    /\ \E o \in Outcomes :
        /\ Charge(o)
        /\ IF o = "ok"
           THEN /\ loc' = [loc EXCEPT !.verification_passed = Some(loc.all_checks_passed)]
                /\ pc' = "ver_done"
                /\ UNCHANGED <<connVars, errAt>>
           ELSE VerFail(o) /\ UNCHANGED serverConn
    /\ UNCHANGED <<cleanVars, peer, file, storeVars, ctlVars, configExists, histVars>>

\* lines 316-323: main prints the verdict and falls through to finally
InsReport ==
    /\ Running("insert", "ver_done")
    /\ pc' = "finally" /\ exitCode' = Some(0)
    /\ UNCHANGED <<cleanVars, peer, file, storeVars, connVars, script, configExists, loc,
                   histVars, faults, errAt>>

\* conn.close(): the server rolls back a transaction that is still open
Closed ==
    /\ conn' = "closed" /\ txn' = "idle" /\ pending' = <<>> /\ ddlPending' = FALSE
    /\ UNCHANGED serverConn

\* lines 325-329
InsFinally ==
    /\ Running("insert", "finally")
    /\ Closed
    /\ script' = "idle" /\ pc' = ""
    /\ UNCHANGED <<cleanVars, peer, file, storeVars, exitCode, configExists, loc,
                   histVars, faults, errAt>>

InsertNext ==
    \/ StartInsert \/ InsLoadConfig \/ InsLoadData \/ InsValidate \/ InsConnect
    \/ InsCount \/ InsPrompt \/ InsExec \/ InsCommit \/ InsRecount \/ InsExcept
    \/ InsMainCheck \/ VerCount \/ VerNulls \/ VerSample \/ VerColumns
    \/ InsReport \/ InsFinally

----------------------------------------------------------------------------
(* 03_database_setup.py *)

\* the operator starts the setup script
StartSetup ==
    /\ script = "idle"
    /\ script' = "setup" /\ pc' = "load_config"
    /\ startRows' = rows /\ startTable' = table /\ startFaults' = faults
    /\ errAt' = ""
    /\ exitCode' = NaN
    /\ loc' = FreshLocals /\ NoConnections
    /\ UNCHANGED <<cleanVars, peer, file, storeVars, runNo, faults, configExists>>

\* main, step 1: load_database_config; a missing file is replaced by the
\* template, and the whole template (not its 'database' section) is returned
SetLoadConfig ==
    /\ Running("setup", "load_config")
    /\ configExists' = TRUE
    /\ loc' = [loc EXCEPT !.db_config = IF configExists THEN "section" ELSE "template"]
    /\ pc' = "connect_server"
    /\ UNCHANGED <<cleanVars, peer, file, storeVars, connVars, ctlVars, histVars, faults,
                   errAt>>

\* create_database_connection, lines 65-77: db_config['host'] raises KeyError
\* on the template; every exception makes the function return None and main
\* return
SetConnectServer ==
    /\ Running("setup", "connect_server")
    /\ \E o \in Outcomes :
        /\ Charge(o)
        /\ IF o = "ok" /\ loc.db_config = "section"
           THEN serverConn' = "open" /\ pc' = "check_db" /\ UNCHANGED ctlVars
           ELSE ExitNow(0) /\ serverConn' = serverConn
    /\ UNCHANGED <<cleanVars, peer, file, storeVars, conn, txn, pending, ddlPending,
                   configExists, loc, histVars, errAt>>

\* lines 79-95: the database is looked up and created when missing (in
\* autocommit mode), then the server connection is closed; an exception
\* returns None without closing it
SetCheckDb ==
    /\ Running("setup", "check_db")
    /\ \E o \in Outcomes :
        /\ Charge(o)
        /\ IF o = "ok"
           THEN IF dbExists
                THEN serverConn' = "closed" /\ pc' = "connect_target"
                     /\ UNCHANGED ctlVars
                ELSE pc' = "create_db" /\ UNCHANGED <<serverConn, ctlVars>>
           ELSE /\ ExitNow(0)
                /\ serverConn' = IF o = "drop" THEN "broken" ELSE serverConn
    /\ UNCHANGED <<cleanVars, peer, file, storeVars, conn, txn, pending, ddlPending,
                   configExists, loc, histVars, errAt>>

SetCreateDb ==
    /\ Running("setup", "create_db")
    /\ \E o \in Outcomes :
        /\ Charge(o)
        /\ IF o = "ok"
           THEN /\ dbExists' = TRUE /\ serverConn' = "closed"
                /\ pc' = "connect_target" /\ UNCHANGED ctlVars
           ELSE /\ ExitNow(0) /\ dbExists' = dbExists
                /\ serverConn' = IF o = "drop" THEN "broken" ELSE serverConn
    /\ UNCHANGED <<cleanVars, peer, file, table, rows, conn, txn, pending, ddlPending,
                   configExists, loc, histVars, errAt>>

\* lines 97-108
SetConnectTarget ==
    /\ Running("setup", "connect_target")
    /\ \E o \in Outcomes :
        /\ Charge(o)
        /\ IF o = "ok"
           THEN conn' = "open" /\ pc' = "create_exec" /\ UNCHANGED ctlVars
           ELSE ExitNow(0) /\ conn' = conn
    /\ UNCHANGED <<cleanVars, peer, file, storeVars, txn, pending, ddlPending, serverConn,
                   configExists, loc, histVars, errAt>>

\* CREATE TABLE without IF NOT EXISTS fails on an existing relation
CreateStrict(o, relation) == IF o = "ok" /\ relation # NaN THEN "error" ELSE o

\* the outcome of CREATE TABLE IF NOT EXISTS: an existing relation is no error
CreateIfNotExists(o, relation) == o

\* a statement that replaces the relation empties it
RowsAfterRecreate(relation, committed) == <<>>

\* the rows of the relation after the committed CREATE TABLE IF NOT EXISTS
RowsAfterCreate(relation, committed) == committed

\* create_students_table, lines 139-141
SetCreateExec ==
    /\ Running("setup", "create_exec")
    /\ \E o \in Outcomes :
        /\ Charge(o)
        /\ IF CreateIfNotExists(o, table) = "ok"
           THEN /\ txn' = "active" /\ ddlPending' = (table = NaN)
                /\ pc' = "create_commit"
                /\ UNCHANGED <<conn, pending>>
           ELSE ConnFail(CreateIfNotExists(o, table)) /\ pc' = "create_except"
    /\ UNCHANGED <<cleanVars, peer, file, storeVars, serverConn, ctlVars, configExists,
                   loc, histVars, errAt>>

\* line 142: the relation exists once the CREATE TABLE is committed
SetCreateCommit ==
    /\ Running("setup", "create_commit")
    /\ \E o \in Outcomes, applied \in BOOLEAN :
        /\ Charge(o)
        /\ (o # "drop") => applied = (o = "ok")
        /\ table' = IF applied /\ ddlPending THEN Some(StudentsDDL) ELSE table
        /\ rows' = IF applied THEN RowsAfterCreate(table, rows) ELSE rows
        /\ txn' = "idle" /\ ddlPending' = FALSE /\ pending' = pending
        /\ IF o = "ok"
           THEN pc' = "create_describe" /\ conn' = conn
           ELSE pc' = "create_except" /\ conn' = IF o = "drop" THEN "broken" ELSE conn
    /\ UNCHANGED <<cleanVars, peer, file, dbExists, serverConn, ctlVars, configExists,
                   loc, histVars, errAt>>

\* lines 144-162: the columns are read and printed; return True
SetDescribe ==
    /\ Running("setup", "create_describe")
    /\ \E o \in Outcomes :
        /\ Charge(o)
        /\ IF o = "ok"
           THEN /\ txn' = "active" /\ UNCHANGED <<conn, pending, ddlPending>>
                /\ loc' = [loc EXCEPT !.table_created = Some(TRUE)]
                /\ pc' = "main_check"
           ELSE ConnFail(o) /\ pc' = "create_except" /\ loc' = loc
    /\ UNCHANGED <<cleanVars, peer, file, storeVars, serverConn, ctlVars, configExists,
                   histVars, errAt>>

\* lines 164-167: rollback and return False; on a lost connection
\* conn.rollback() raises and the exception leaves main through finally
SetCreateExcept ==
    /\ Running("setup", "create_except")
    /\ IF conn = "open"
       THEN /\ RolledBack
            /\ loc' = [loc EXCEPT !.table_created = Some(FALSE)]
            /\ pc' = "main_check" /\ UNCHANGED exitCode
       ELSE /\ pc' = "finally" /\ exitCode' = Some(1)
            /\ UNCHANGED <<conn, txn, pending, ddlPending, loc>>
    /\ UNCHANGED <<cleanVars, peer, file, storeVars, serverConn, script, configExists,
                   histVars, faults, errAt>>

\* main, lines 210-223: without the table main returns; otherwise the
\* cleaned file is loaded and main returns whether or not it was found
SetMainCheck ==
    /\ Running("setup", "main_check")
    /\ IF loc.table_created = Some(TRUE) /\ file # <<>>
       THEN loc' = [loc EXCEPT !.df = read_csv(Val(file))]
       ELSE loc' = loc
    /\ pc' = "finally" /\ exitCode' = Some(0)
    /\ UNCHANGED <<cleanVars, peer, file, storeVars, connVars, script, configExists,
                   histVars, faults, errAt>>

\* lines 225-228
SetFinally ==
    /\ Running("setup", "finally")
    /\ Closed
    /\ script' = "idle" /\ pc' = ""
    /\ UNCHANGED <<cleanVars, peer, file, storeVars, exitCode, configExists, loc,
                   histVars, faults, errAt>>

SetupNext ==
    \/ StartSetup \/ SetLoadConfig \/ SetConnectServer \/ SetCheckDb \/ SetCreateDb
    \/ SetConnectTarget \/ SetCreateExec \/ SetCreateCommit \/ SetDescribe
    \/ SetCreateExcept \/ SetMainCheck \/ SetFinally

----------------------------------------------------------------------------
(* The pipeline after the cleaner: the operator runs the setup script and   *)
(* the insertion script, one at a time, over one cleaned file.              *)

LongName == [i \in 1..(FirstNameLen + 1) |-> "a"]

\* rows of the cleaned file: two valid rows, a row whose first name exceeds
\* VARCHAR(50) (the validator does not look at lengths), a row of age 151
RecA == [name |-> <<"a", Space, "b">>, first |-> <<"a">>, last |-> <<"b">>,
         age |-> Some(20), mark |-> NumMark(750), gender |-> Some("f"), phone |-> NaN]
RecB == [name |-> <<"b", Space, "a">>, first |-> <<"b">>, last |-> <<"a">>,
         age |-> Some(30), mark |-> NumMark(400), gender |-> Some("m"),
         phone |-> Some(5)]
RecLong == [RecA EXCEPT !.first = LongName]
RecOld == [RecB EXCEPT !.age = Some(MaxAge + 1)]

PipelineRows == {RecA, RecB, RecLong, RecOld}

PipelineFiles == {Some(f) : f \in SeqsUpTo(PipelineRows, MaxBatch)} \cup {NaN}

Init ==
    /\ CleanIdle
    /\ file \in PipelineFiles
    /\ StoreInit /\ ConnInit /\ LocInit /\ RunInit /\ ScriptInit

Next == SetupNext \/ InsertNext

Spec == Init /\ [][Next]_vars

----------------------------------------------------------------------------
(* The validator over the files it can be given: the insertion script up   *)
(* to its validation step, the configuration being in place.               *)

ValidRow == [name |-> <<"a", Space, "b">>, first |-> <<"a">>, last |-> <<"b">>,
             age |-> Some(MaxAge), mark |-> NumMark(MaxMark), gender |-> Some("f"),
             phone |-> NaN]

\* the values a cell of each column takes: the limits of the ranges and
\* their neighbours, a missing cell, a code outside the list
CellValues ==
    [first  |-> {<<>>},
     last   |-> {<<>>},
     age    |-> {NaN, Some(MinAge - 1), Some(MinAge), Some(MaxAge + 1)},
     mark   |-> {NaNMark, NumMark(MinMark - 1), NumMark(MinMark), NumMark(MaxMark + 1)},
     gender |-> {NaN, Some("m"), Some("x")},
     phone  |-> {Some(5)}]

\* the validator checks each column on its own: the rows differ from a valid
\* row in one cell, or in every cell
AllBadRow == [name |-> <<"a">>, first |-> <<>>, last |-> <<>>, age |-> Some(MinAge - 1),
              mark |-> NumMark(MaxMark + 1), gender |-> Some("x"), phone |-> NaN]

ValFileRows ==
    {ValidRow, AllBadRow} \cup
    UNION {{[ValidRow EXCEPT ![column] = v] : v \in CellValues[column]} :
              column \in DOMAIN CellValues}

ValidateInit ==
    /\ CleanIdle
    /\ file \in {Some(f) : f \in SeqsUpTo(ValFileRows, MaxBatch)}
    /\ StoreInit /\ ConnInit /\ LocInit /\ RunInit
    /\ script = "idle" /\ pc = "" /\ configExists = TRUE /\ exitCode = NaN

ValidateNext == StartInsert \/ InsLoadConfig \/ InsLoadData \/ InsValidate

SpecValidate == ValidateInit /\ [][ValidateNext]_vars

----------------------------------------------------------------------------
(* The store with a second client that writes rows without the validator   *)
(* (SpecBypass) or deletes rows after a commit (SpecEnv).                   *)

MaxStoreRows == 2

ValidTuple == record_data(read_csv(<<ValidRow>>)[1])

\* tuples a client may try to insert: a valid one, and tuples differing from
\* it in one column
BypassTuples ==
    {ValidTuple} \cup
    {[ValidTuple EXCEPT !.first = v] : v \in {NaN, Some(<<>>), Some(LongName)}} \cup
    {[ValidTuple EXCEPT !.last = v] : v \in {NaN, Some(<<>>)}} \cup
    {[ValidTuple EXCEPT !.age = v] : v \in {NaN, Some(0), Some(1), Some(MaxAge + 1)}} \cup
    {[ValidTuple EXCEPT !.mark = v] : v \in {NaN, Some(0 - 1), Some(0), Some(MaxMark + 1)}} \cup
    {[ValidTuple EXCEPT !.gender = v] : v \in {NaN, Some("m"), Some("x")}}

\* INSERT by another client, in autocommit: the table's constraints decide
DirectInsert ==
    /\ table # NaN /\ Len(rows) < MaxStoreRows
    /\ \E t \in BypassTuples :
        /\ StoreAccepts(Val(table), t)
        /\ rows' = Append(rows, [run |-> 0, pos |-> Len(rows) + 1, rec |-> t])
    /\ UNCHANGED <<cleanVars, peer, file, table, dbExists, connVars, ctlVars, pc,
                   configExists, loc, histVars, faults, errAt>>

SpecBypass == Init /\ [][SetupNext \/ DirectInsert]_vars

\* DELETE of one row by another client, between the commit of the batch and
\* the count that verify_insertion_success reads
ExternalDelete ==
    /\ script = "insert" /\ pc \in {"ins_recount", "main_check", "ver_count"}
    /\ \E i \in DOMAIN rows :
        rows' = SubSeq(rows, 1, i - 1) \o SubSeq(rows, i + 1, Len(rows))
    /\ UNCHANGED <<cleanVars, peer, file, table, dbExists, connVars, ctlVars, pc,
                   configExists, loc, histVars, faults, errAt>>

SpecEnv == Init /\ [][Next \/ ExternalDelete]_vars

----------------------------------------------------------------------------
(* A second run of 04_data_insertion.py on a connection of its own, at the  *)
(* same time as the first: its insert_student_data, with an operator who    *)
(* does not confirm reinsertion.  Each connection sees the committed rows   *)
(* and the rows of its own transaction.                                     *)

peerOthers ==
    <<cleanVars, file, table, dbExists, connVars, ctlVars, pc, configExists, loc,
      histVars, faults, errAt>>

\* main, steps 1-4 of the second run: it reaches insert_student_data when
\* the file validates and the store is set up
PeerStart ==
    /\ peer.pc = "idle"
    /\ configExists /\ dbExists /\ table # NaN /\ file # NaN
    /\ validate_data_before_insertion(read_csv(Val(file)))
    /\ peer' = [peer EXCEPT !.pc = "count"]
    /\ UNCHANGED <<rows, peerOthers>>

\* lines 147-155: the count, and the refusal when it is not 0
PeerCount ==
    /\ peer.pc = "count"
    /\ LET count == Len(rows) + Len(peer.pending) IN
       IF count > 0 /\ ~Proceeds(strip(lower(<<"n">>)))
       THEN peer' = [peer EXCEPT !.existing_count = count, !.pc = "done",
                                 !.returned = Some(FALSE)]
       ELSE peer' = [peer EXCEPT !.existing_count = count, !.pc = "exec"]
    /\ UNCHANGED <<rows, peerOthers>>

\* the tuples of the second run's batch
PeerBatch ==
    LET dframe == read_csv(Val(file)) IN
    [k \in DOMAIN dframe |-> [run |-> 0, pos |-> k, rec |-> record_data(dframe[k])]]

\* lines 164-183 and 198-205: executemany, or rollback and return False
PeerExec ==
    /\ peer.pc = "exec"
    /\ IF /\ ~PrepRaises(read_csv(Val(file)))
          /\ \A k \in DOMAIN PeerBatch : StoreAccepts(Val(table), PeerBatch[k].rec)
       THEN peer' = [peer EXCEPT !.pending = PeerBatch, !.pc = "commit"]
       ELSE peer' = [peer EXCEPT !.pc = "done", !.returned = Some(FALSE)]
    /\ UNCHANGED <<rows, peerOthers>>

\* lines 186-196: conn.commit(); return True
PeerCommit ==
    /\ peer.pc = "commit"
    /\ rows' = rows \o peer.pending
    /\ peer' = [peer EXCEPT !.pending = <<>>, !.pc = "done", !.returned = Some(TRUE)]
    /\ UNCHANGED peerOthers

PeerNext == PeerStart \/ PeerCount \/ PeerExec \/ PeerCommit

SpecRace == Init /\ [][Next \/ PeerNext]_vars

----------------------------------------------------------------------------
(* 05_data_analysis.py: the queries *)

Threshold == 500    \* WHERE average_mark > 5.0

Min(S) == CHOOSE m \in S : \A x \in S : m <= x

\* a filter that also lets the threshold itself through
AtOrAboveThreshold(m) == m >= Threshold

\* WHERE average_mark > 5.0
AboveThreshold(m) == m > Threshold

\* the gender codes the table's CHECK admits, in ascending order
GenderKeys == <<"f", "m">>

\* the marks of the rows of tbl that pass the WHERE clause and fall into
\* group g
MarksOfGender(tbl, g) ==
    LET sel == SelectSeq(tbl, LAMBDA r : /\ AboveThreshold(Val(r.rec.mark))
                                         /\ Val(r.rec.gender) = g)
    IN [i \in DOMAIN sel |-> Val(sel[i].rec.mark)]

\* AVG is an exact quotient: numerator and denominator
Avg(marks) == [num |-> SeqSum(marks), den |-> Len(marks)]

\* one row of the result: gender, COUNT(*), AVG, MIN, MAX
GenderRow(g, marks) ==
    [gender |-> g, student_count |-> Len(marks), avg_mark_in_group |-> Avg(marks),
     min_mark_in_group |-> Min(Range(marks)), max_mark_in_group |-> Max(Range(marks))]

\* lines 88-99: GROUP BY gender yields a row per gender that has rows left
\* after the WHERE clause; ORDER BY gender
analysis_query(tbl) ==
    LET keys == SelectSeq(GenderKeys, LAMBDA g : MarksOfGender(tbl, g) # <<>>)
    IN [k \in DOMAIN keys |-> GenderRow(keys[k], MarksOfGender(tbl, keys[k]))]

\* round(x, 2) of a Decimal: to the nearest hundredth, halves to even
round2(avg) ==
    LET q == avg.num \div avg.den
        r == avg.num % avg.den
    IN IF 2 * r < avg.den THEN q
       ELSE IF 2 * r > avg.den THEN q + 1
       ELSE IF q % 2 = 0 THEN q ELSE q + 1

\* lines 135-147: the frame built from the result rows
create_pandas_dataframe_from_results(results) ==
    [k \in DOMAIN results |->
        [Gender |-> IF results[k].gender = "m" THEN "Male" ELSE "Female",
         Student_Count |-> results[k].student_count,
         Average_Mark |-> round2(results[k].avg_mark_in_group),
         Min_Mark |-> results[k].min_mark_in_group,
         Max_Mark |-> results[k].max_mark_in_group]]

\* lines 187-191: the CASE expression
age_group(age) ==
    IF age < 20 THEN "Under 20"
    ELSE IF age >= 20 /\ age <= 25 THEN "20-25"
    ELSE "Over 25"

AgeGroups == {"Under 20", "20-25", "Over 25"}

\* the rows of tbl in one age group: no WHERE clause in this query
RowsOfAgeGroup(tbl, grp) ==
    SelectSeq(tbl, LAMBDA r : age_group(Val(r.rec.age)) = grp)

\* one row of the result: age_group, COUNT(*), COUNT(CASE WHEN
\* average_mark > 5.0 ...), AVG(average_mark)
AgeRow(tbl, grp) ==
    LET sel == RowsOfAgeGroup(tbl, grp)
        marks == [i \in DOMAIN sel |-> Val(sel[i].rec.mark)]
    IN [age_group |-> grp, total_students |-> Len(sel),
        high_performers |-> Len(SelectSeq(marks, AboveThreshold)),
        avg_mark |-> Avg(marks)]

\* a.avg_mark >= b.avg_mark, on the quotients
AvgAtLeast(a, b) == a.num * b.den >= b.num * a.den

\* lines 185-203: ORDER BY avg_mark DESC; the store may return groups of
\* equal average in any order
age_query_results(tbl) ==
    LET present == {grp \in AgeGroups : RowsOfAgeGroup(tbl, grp) # <<>>}
        n == Cardinality(present)
    IN { [k \in 1..n |-> AgeRow(tbl, order[k])] :
           order \in { o \in [1..n -> present] :
                         /\ \A j, k \in 1..n : j # k => o[j] # o[k]
                         /\ \A j, k \in 1..n : j < k =>
                               AvgAtLeast(AgeRow(tbl, o[j]).avg_mark,
                                          AgeRow(tbl, o[k]).avg_mark) } }

----------------------------------------------------------------------------
(* 05_data_analysis.py: main and the stage functions *)

\* the operator starts the analysis script
StartAnalysis ==
    /\ script = "idle"
    /\ script' = "analysis" /\ pc' = "load_config"
    /\ startRows' = rows /\ startTable' = table /\ startFaults' = faults
    /\ errAt' = ""
    /\ exitCode' = NaN
    /\ loc' = FreshLocals /\ NoConnections
    /\ UNCHANGED <<cleanVars, peer, file, storeVars, runNo, faults, configExists>>

\* main, lines 245-248: without configuration main returns
AnaLoadConfig ==
    /\ Running("analysis", "load_config")
    /\ IF configExists
       THEN /\ loc' = [loc EXCEPT !.db_config = "section"]
            /\ pc' = "connect" /\ UNCHANGED ctlVars
       ELSE ExitNow(0) /\ loc' = loc
    /\ UNCHANGED <<cleanVars, peer, file, storeVars, connVars, configExists, histVars,
                   faults, errAt>>

\* main, lines 250-253
AnaConnect ==
    /\ Running("analysis", "connect")
    /\ \E o \in Outcomes :
        /\ Charge(o)
        /\ IF o = "ok" /\ dbExists
           THEN conn' = "open" /\ pc' = "ana_overview" /\ UNCHANGED ctlVars
           ELSE ExitNow(0) /\ conn' = conn
    /\ UNCHANGED <<cleanVars, peer, file, storeVars, txn, pending, ddlPending, serverConn,
                   configExists, loc, histVars, errAt>>

\* an exception inside analyze_student_performance_by_gender: return None
AnaFail(res) ==
    /\ errAt' = "analysis" /\ pc' = "ana_main_check"
    /\ loc' = [loc EXCEPT !.results = NaN]

\* lines 64-78: the overview; over an empty table MIN, MAX and AVG are NULL
\* and formatting None with :.2f raises TypeError
AnaOverview ==
    /\ Running("analysis", "ana_overview")
    /\ \E o \in Outcomes :
        LET res == IF o = "ok" /\ table = NaN THEN "error" ELSE o IN
        /\ Charge(o)
        /\ IF res = "ok"
           THEN /\ txn' = "active" /\ UNCHANGED <<conn, pending, ddlPending>>
                /\ IF rows = <<>>
                   THEN AnaFail(res)
                   ELSE pc' = "ana_query" /\ UNCHANGED <<loc, errAt>>
           ELSE ConnFail(res) /\ AnaFail(res)
    /\ UNCHANGED <<cleanVars, peer, file, storeVars, serverConn, ctlVars, configExists,
                   histVars>>

\* lines 101-113: the analysis query; return results
AnaQuery ==
    /\ Running("analysis", "ana_query")
    /\ \E o \in Outcomes :
        /\ Charge(o)
        /\ IF o = "ok"
           THEN /\ loc' = [loc EXCEPT !.results = Some(analysis_query(rows))]
                /\ pc' = "ana_main_check"
                /\ UNCHANGED <<connVars, errAt>>
           ELSE ConnFail(o) /\ AnaFail(o) /\ UNCHANGED serverConn
    /\ UNCHANGED <<cleanVars, peer, file, storeVars, ctlVars, configExists, histVars>>

\* main, lines 258-266: None ends main; so does an empty list, for which
\* create_pandas_dataframe_from_results returns None ("if not results")
AnaMainCheck ==
    /\ Running("analysis", "ana_main_check")
    /\ IF loc.results = NaN \/ Val(loc.results) = <<>>
       THEN pc' = "finally" /\ exitCode' = Some(0) /\ loc' = loc
       ELSE /\ loc' = [loc EXCEPT !.df_results =
                          Some(create_pandas_dataframe_from_results(Val(loc.results)))]
            /\ pc' = "ana_age" /\ UNCHANGED exitCode
    /\ UNCHANGED <<cleanVars, peer, file, storeVars, connVars, script, configExists,
                   histVars, faults, errAt>>

\* an exception inside perform_additional_exploratory_analysis is printed;
\* the function ends and main goes on (lines 231-234)
ExploreFail(res) ==
    /\ ConnFail(res) /\ errAt' = "explore" /\ pc' = "ana_summary"
    /\ loc' = loc

\* lines 185-209: performance by age group
AnaAge ==
    /\ Running("analysis", "ana_age")
    /\ \E o \in Outcomes, age_results \in age_query_results(rows) :
        /\ Charge(o)
        /\ IF o = "ok"
           THEN /\ loc' = [loc EXCEPT !.age_results = Some(age_results)]
                /\ pc' = "ana_stats"
                /\ UNCHANGED <<conn, txn, pending, ddlPending, errAt>>
           ELSE ExploreFail(o)
    /\ UNCHANGED <<cleanVars, peer, file, storeVars, serverConn, ctlVars, configExists,
                   histVars>>

\* lines 212-229: the overall statistics
AnaStats ==
    /\ Running("analysis", "ana_stats")
    /\ \E o \in Outcomes :
        /\ Charge(o)
        /\ IF o = "ok"
           THEN pc' = "ana_summary"
                /\ UNCHANGED <<conn, txn, pending, ddlPending, loc, errAt>>
           ELSE ExploreFail(o)
    /\ UNCHANGED <<cleanVars, peer, file, storeVars, serverConn, ctlVars, configExists,
                   histVars>>

\* main, lines 271-276: the summary reports success
AnaSummary ==
    /\ Running("analysis", "ana_summary")
    /\ loc' = [loc EXCEPT !.summary = TRUE]
    /\ pc' = "finally" /\ exitCode' = Some(0)
    /\ UNCHANGED <<cleanVars, peer, file, storeVars, connVars, script, configExists,
                   histVars, faults, errAt>>

\* lines 278-282
AnaFinally ==
    /\ Running("analysis", "finally")
    /\ Closed
    /\ script' = "idle" /\ pc' = ""
    /\ UNCHANGED <<cleanVars, peer, file, storeVars, exitCode, configExists, loc,
                   histVars, faults, errAt>>

AnalysisNext ==
    \/ StartAnalysis \/ AnaLoadConfig \/ AnaConnect \/ AnaOverview \/ AnaQuery
    \/ AnaMainCheck \/ AnaAge \/ AnaStats \/ AnaSummary \/ AnaFinally

\* tuples of the table under analysis: both genders, marks below, at and
\* above the threshold, an age in each group
AnalysisTuples ==
    {[ValidTuple EXCEPT !.gender = Some(g), !.mark = Some(m), !.age = Some(a)] :
        g \in {"f", "m"}, m \in {400, Threshold, 700}, a \in {19, 22, 30}}

\* the analysis script over a store that setup and insertion have filled
AnalysisInit ==
    /\ CleanIdle /\ file = NaN
    /\ dbExists = TRUE /\ table = Some(StudentsDDL)
    /\ \E content \in SeqsUpTo(AnalysisTuples, MaxStoreRows) :
          rows = [i \in DOMAIN content |-> [run |-> 0, pos |-> i, rec |-> content[i]]]
    /\ ConnInit /\ LocInit /\ RunInit
    /\ script = "idle" /\ pc = "" /\ configExists = TRUE /\ exitCode = NaN

SpecAnalysis == AnalysisInit /\ [][AnalysisNext]_vars

----------------------------------------------------------------------------
(* C6: the cleaner keeps exactly the rows whose average mark is present:   *)
(* every such input row appears once in the output, unchanged, no other    *)
(* row appears, and no output row has a missing mark.                      *)
MarkPresent(m) == m.kind # "nan"

PresentRows == {i \in DOMAIN raw : MarkPresent(raw[i].mark)}

C6_CleanerKeepsPresentMarks ==
    cpc \in {"split_names", "save", "done", "crashed"} =>
        /\ Len(cdf) = Cardinality(PresentRows)
        /\ \A i \in PresentRows :
              Cardinality({j \in DOMAIN cdf : cdf[j].idx = i}) = 1
        /\ \A j \in DOMAIN cdf :
              /\ cdf[j].idx \in PresentRows
              /\ MarkPresent(cdf[j].mark)
              /\ cdf[j].mark = raw[cdf[j].idx].mark
              /\ cdf[j].name = raw[cdf[j].idx].name

\* a frame with a missing mark between two present ones has been filtered
C6_Witness ==
    /\ cpc = "split_names"
    /\ Len(raw) = 2 /\ Len(cdf) = 1
    /\ ~MarkPresent(raw[1].mark) /\ raw[2].mark = NumMark(0)

(* C7: a full name with whitespace-separated tokens t1..tk, k >= 2, gets   *)
(* first name t1 and last name t2, also across runs of whitespace.         *)
RECURSIVE Tokens(_, _)
Tokens(s, cur) ==
    IF s = <<>> THEN (IF cur = <<>> THEN <<>> ELSE <<cur>>)
    ELSE IF Head(s) \in Whitespace
         THEN (IF cur = <<>> THEN <<>> ELSE <<cur>>) \o Tokens(Tail(s), <<>>)
         ELSE Tokens(Tail(s), Append(cur, Head(s)))

C7_SplitTakesFirstTwoTokens ==
    cpc \in {"save", "done"} =>
        \A j \in DOMAIN cdf :
            NotNa(cdf[j].name) /\ Len(Tokens(Val(cdf[j].name), <<>>)) >= 2 =>
                /\ cdf[j].first = Some(Tokens(Val(cdf[j].name), <<>>)[1])
                /\ cdf[j].last = Some(Tokens(Val(cdf[j].name), <<>>)[2])

----------------------------------------------------------------------------
\* rows of the table written by insertion run r
RowsOfRun(r) == {i \in DOMAIN rows : rows[i].run = r}

BatchSize == IF file = NaN THEN 0 ELSE Len(Val(file))

(* C1: batch atomicity.  The committed table never holds a non-empty       *)
(* strict subset of a batch; and when an INSERT of the batch raised a      *)
(* store error before the commit, the committed rows are those the table   *)
(* held before the attempt and, once the handler has run, nothing of the   *)
(* batch is left in the transaction.                                       *)
C1_BatchAtomic ==
    /\ \A r \in 1..runNo :
          Cardinality(RowsOfRun(r)) \in {0, BatchSize}
    /\ errAt = "insert" =>
          /\ rows = startRows
          /\ pc # "ins_except" => pending = <<>> /\ txn = "idle"

\* the second INSERT of a batch of two was refused by the table after the
\* first had been executed, and insert_student_data has returned False
C1_Witness ==
    /\ errAt = "insert" /\ loc.nExec = 2 /\ faults = 0
    /\ loc.insertion_successful = Some(FALSE)

(* C2: reinsertion guard.  When the table holds rows and the operator's    *)
(* answer (lowered, stripped) is not 'y', insert_student_data returns      *)
(* False, has executed no INSERT, and the table is as it was.              *)
Refusal ==
    loc.existing_count > 0 /\ pc # "ins_prompt" /\ loc.response # <<"y">>

C2_RefusalChangesNothing ==
    Refusal =>
        /\ loc.insertion_successful = Some(FALSE)
        /\ loc.nExec = 0 /\ pending = <<>>
        /\ rows = startRows /\ table = startTable

C2_Witness ==
    /\ Refusal /\ script = "insert" /\ pc = "main_check"
    /\ loc.response = <<>> /\ Len(rows) = 2

(* C3: whenever insert_student_data returns False, no row of the batch it  *)
(* attempted is in the committed table, also when the step that failed is  *)
(* the count query that follows the commit.                                *)
C3_FailureLeavesNoRows ==
    loc.insertion_successful = Some(FALSE) => RowsOfRun(runNo) = {}

ValidatedRecordInv(r) ==
    /\ NotNa(r.age) /\ Val(r.age) >= 1 /\ Val(r.age) <= 150
    /\ r.mark.kind = "num" /\ r.mark.v >= 0 /\ r.mark.v <= 1000
    /\ NotNa(r.gender) /\ Val(r.gender) \in {"m", "f"}
    /\ r.first # <<>> /\ r.last # <<>>

C5_ValidatorExact ==
    loc.validation_passed # NaN =>
        (loc.validation_passed = Some(TRUE)) <=>
            (\A i \in DOMAIN Val(file) : ValidatedRecordInv(Val(file)[i]))

\* a valid row without phone number followed by a row whose only defect is
\* an age of 151: the batch fails
C5_Witness ==
    /\ loc.validation_passed = Some(FALSE)
    /\ Len(loc.df) = 2
    /\ Val(file)[1] = ValidRow
    /\ Val(file)[2] = [ValidRow EXCEPT !.age = Some(151)]

(* C8: create_students_table called when an earlier call has created the   *)
(* relation: while the script runs and after it, the relation and its rows *)
(* are those found; and the call returns True unless a store fault hit it. *)
C8_CreateTableIdempotent ==
    /\ script = "setup" /\ startTable # NaN =>
          table = startTable /\ rows = startRows
    /\ loc.table_created # NaN /\ startTable # NaN =>
          /\ table = startTable /\ rows = startRows
          /\ faults = startFaults => loc.table_created = Some(TRUE)

\* a second call that returned True on a table that holds rows
C8_Witness ==
    /\ loc.table_created = Some(TRUE) /\ startTable # NaN
    /\ Len(rows) = 2 /\ faults = 0

(* C9: every row of the table has an age in 1..150, a mark in [0, 10],     *)
(* gender 'm' or 'f' and non-empty first and last names, whoever wrote it. *)
C9_StoreEnforcesInvariants ==
    \A i \in DOMAIN rows :
        LET r == rows[i].rec IN
        /\ NotNa(r.age) /\ Val(r.age) >= 1 /\ Val(r.age) <= 150
        /\ NotNa(r.mark) /\ Val(r.mark) >= 0 /\ Val(r.mark) <= 1000
        /\ NotNa(r.gender) /\ Val(r.gender) \in {"m", "f"}
        /\ NotNa(r.first) /\ Val(r.first) # <<>>
        /\ NotNa(r.last) /\ Val(r.last) # <<>>

(* C10: post-commit verification.  Once verify_insertion_success has       *)
(* read the count after a committed, non-empty batch, it reports a count   *)
(* mismatch exactly when the count it read differs from the count before   *)
(* the batch plus the number of inserted records.                          *)
C10_MismatchReportedExactly ==
    loc.count_verified # NaN /\ Len(loc.df) > 0 =>
        ((loc.count_verified = Some(FALSE)) <=>
            (loc.actual_count # loc.existing_count + Len(loc.df)))

(* C17: a record whose full name has fewer than two tokens does not stop   *)
(* the cleaner: the cleaner completes, leaves the record's last name       *)
(* empty, and the validator fails the file it wrote.                       *)
ShortNamed(r) == NotNa(r.name) /\ Len(Tokens(Val(r.name), <<>>)) < 2

C17_ShortNameLeftEmptyThenRejected ==
    \A i \in DOMAIN cdf :
        cpc \in {"save", "done", "crashed"} /\ ShortNamed(cdf[i]) =>
            /\ cpc # "crashed"
            /\ IsNull(cdf[i].last)
            /\ cpc = "done" => ~validate_data_before_insertion(read_csv(Val(file)))

(* C18: a record whose average mark is present but not a number is dropped *)
(* by the cleaner like a record without mark: once the rows with missing   *)
(* marks are removed, every remaining row has a numeric mark, and the      *)
(* cleaner goes on.                                                        *)
C18_NonNumericMarksDropped ==
    cpc # "remove_missing" =>
        \A i \in DOMAIN cdf : cdf[i].mark.kind = "num"

(* C11: connection release.  When a script has ended, no connection it     *)
(* opened is still open: neither the connection to the target database nor *)
(* the server-level connection used to look up and create the database.    *)
C11_ConnectionsReleased ==
    script = "idle" => conn # "open" /\ serverConn # "open"

(* C12: exit status.  A script ends with exit code 0 only when every stage *)
(* of the run completed: the setup script created (or found) the table and *)
(* loaded the cleaned file, the insertion script inserted and verified.    *)
C12_ExitZeroOnlyOnSuccess ==
    exitCode = Some(0) =>
        \/ loc.table_created = Some(TRUE) /\ file # NaN
        \/ loc.verification_passed = Some(TRUE)

(* C16: transaction scope.  When the insertion script reaches the          *)
(* conn.close() of its finally clause with a usable connection, no         *)
(* transaction is open on it; in particular none is open after a refused   *)
(* reinsertion.                                                            *)
C16_NoOpenTransactionAtClose ==
    Running("insert", "finally") /\ conn = "open" => txn = "idle"

(* C20: row count with a single writer.  A run whose insert_student_data   *)
(* returned True has added exactly len(df) rows to those the run found,    *)
(* and a run whose insert_student_data returned False has added none (so   *)
(* the count is the initial count plus the batches of the True runs).      *)
C20_CountFollowsReturnValue ==
    /\ loc.insertion_successful = Some(TRUE) =>
          Len(rows) = Len(startRows) + Len(loc.df)
    /\ loc.insertion_successful = Some(FALSE) =>
          Len(rows) = Len(startRows)

(* C13: gender analysis.  Over a non-empty table the result has exactly    *)
(* one row for each gender with a row of average_mark > 5.0 and none for   *)
(* another gender; the row carries the count, average, minimum and maximum *)
(* of the marks of exactly those rows (a mark of 5.0 is left out); the     *)
(* rows are in ascending order of the gender key.                          *)
Qualifying(g) ==
    {i \in DOMAIN rows : Val(rows[i].rec.gender) = g /\ Val(rows[i].rec.mark) > 500}

RECURSIVE MarkTotal(_)
MarkTotal(S) ==
    IF S = {} THEN 0
    ELSE LET i == CHOOSE j \in S : TRUE
         IN Val(rows[i].rec.mark) + MarkTotal(S \ {i})

C13_GenderAnalysisExact ==
    loc.results # NaN /\ rows # <<>> =>
        LET res == Val(loc.results) IN
        /\ \A g \in {"f", "m"} :
              Cardinality({k \in DOMAIN res : res[k].gender = g}) =
                  IF Qualifying(g) = {} THEN 0 ELSE 1
        /\ \A k \in DOMAIN res :
              LET Q == Qualifying(res[k].gender) IN
              /\ res[k].gender \in {"f", "m"}
              /\ res[k].student_count = Cardinality(Q)
              /\ res[k].avg_mark_in_group.num * Cardinality(Q) =
                     MarkTotal(Q) * res[k].avg_mark_in_group.den
              /\ res[k].avg_mark_in_group.den > 0
              /\ \A i \in Q : /\ res[k].min_mark_in_group <= Val(rows[i].rec.mark)
                              /\ res[k].max_mark_in_group >= Val(rows[i].rec.mark)
              /\ \E i \in Q : res[k].min_mark_in_group = Val(rows[i].rec.mark)
              /\ \E i \in Q : res[k].max_mark_in_group = Val(rows[i].rec.mark)
        /\ \A j, k \in DOMAIN res :
              j < k => res[j].gender = "f" /\ res[k].gender = "m"

\* a woman at 7.0 and a man at exactly 5.0: one result row, for 'f'
C13_Witness ==
    /\ loc.results # NaN /\ Len(rows) = 2 /\ Len(Val(loc.results)) = 1
    /\ Val(loc.results)[1].gender = "f"
    /\ \E i \in DOMAIN rows :
          Val(rows[i].rec.gender) = "m" /\ Val(rows[i].rec.mark) = 500

(* C14: age-group breakdown.  Every age group that has rows appears once;  *)
(* its average is the average of the marks above 5.0 of its rows; the      *)
(* groups come in descending order of the average, groups of equal average *)
(* in ascending order of their label.                                      *)
HighMarksOfAgeGroup(grp) ==
    {i \in DOMAIN rows : age_group(Val(rows[i].rec.age)) = grp
                         /\ Val(rows[i].rec.mark) > 500}

\* '20-25' < 'Over 25' < 'Under 20' as strings
LabelRank(label) ==
    IF label = "20-25" THEN 1 ELSE IF label = "Over 25" THEN 2 ELSE 3

C14_AgeGroupsFilteredAndOrdered ==
    loc.age_results # NaN =>
        LET res == Val(loc.age_results) IN
        /\ \A i \in DOMAIN rows :
              Cardinality({k \in DOMAIN res :
                             res[k].age_group = age_group(Val(rows[i].rec.age))}) = 1
        /\ \A k \in DOMAIN res :
              LET H == HighMarksOfAgeGroup(res[k].age_group) IN
              res[k].avg_mark.num * Cardinality(H) = MarkTotal(H) * res[k].avg_mark.den
        /\ \A j, k \in DOMAIN res :
              j < k =>
                 /\ AvgAtLeast(res[j].avg_mark, res[k].avg_mark)
                 /\ AvgAtLeast(res[k].avg_mark, res[j].avg_mark) =>
                       LabelRank(res[j].age_group) < LabelRank(res[k].age_group)

(* C15: error propagation.  When a store error was raised inside           *)
(* perform_additional_exploratory_analysis, the analysis script does not   *)
(* go on to report successful completion.                                  *)
C15_NoSuccessAfterSwallowedError ==
    errAt = "explore" => ~loc.summary

(* C19: check-then-act gap.  With two insertion runs at the same time,     *)
(* neither operator allowing reinsertion: when both runs have read a count *)
(* of 0 and both have returned True, the table holds both batches whole;   *)
(* and the table holds rows of both runs only when both had read 0, that   *)
(* is, when each count was read before the other run committed.            *)
C19_BothBatchesThroughTheGap ==
    /\ ( /\ loc.insertion_successful = Some(TRUE) /\ loc.existing_count = 0
         /\ peer.returned = Some(TRUE) /\ peer.existing_count = 0 ) =>
            /\ Cardinality(RowsOfRun(runNo)) = BatchSize
            /\ Cardinality(RowsOfRun(0)) = BatchSize
    /\ ( /\ RowsOfRun(runNo) # {} /\ RowsOfRun(0) # {}
         /\ loc.response # <<"y">> ) =>
            loc.existing_count = 0 /\ peer.existing_count = 0

\* both runs of a batch of two read 0 on the empty table, both committed,
\* neither operator was asked: the table holds four rows
C19_Witness ==
    /\ runNo = 1 /\ startRows = <<>> /\ BatchSize = 2
    /\ loc.insertion_successful = Some(TRUE) /\ loc.existing_count = 0
    /\ loc.response = <<>>
    /\ peer.returned = Some(TRUE) /\ peer.existing_count = 0
    /\ Len(rows) = 4

(* C21: when the table exists and the store raised no error,               *)
(* analyze_student_performance_by_gender returns a list: a row for each    *)
(* gender with a mark above 5.0, the empty list when there is none, also   *)
(* over a table without rows; it returns None only after a store error.    *)
C21_NoneOnlyOnStoreError ==
    Running("analysis", "ana_main_check") /\ table # NaN /\ faults = startFaults =>
        /\ loc.results # NaN
        /\ Len(Val(loc.results)) =
              Cardinality({g \in {"f", "m"} : Qualifying(g) # {}})
====
